---------------------------- MODULE Spec2Model ----------------------------
(***************************************************************************)
(* Model of gifscii (src/ascii.py): the GIF -> ASCII terminal player.      *)
(*                                                                         *)
(*   image_to_ascii        dimension negotiation, resize, glyph quantizer  *)
(*   extract_gif_frames    the decoder's result (frames and durations)     *)
(*   play_ascii_animation  precompute, pause, the endless playback loop    *)
(*   main                  argument handling and the width override        *)
(*                                                                         *)
(* Python's "/" and "*" on a float are IEEE-754 binary64 operations.  They *)
(* are modelled bit-exactly: a double is a 53-bit significand held in      *)
(* 27-bit limbs and a binary exponent, every operation rounds to nearest,  *)
(* ties to even, and int() truncates.                                      *)
(***************************************************************************)
EXTENDS Integers, Naturals, Sequences, FiniteSets, TLC

(***************************************************************************)
(* Natural numbers below 2^81: three limbs of 27 bits, least significant   *)
(* first.                                                                  *)
(***************************************************************************)
Base == 134217728

Half == 67108864

WZero == <<0, 0, 0>>

\* an int 0 <= n < 2^31
WOfInt(n) == <<n % Base, n \div Base, 0>>

\* a number below 2^31
WToInt(a) == a[1] + Base * a[2]

WDouble(a) ==
  LET c1 == (2 * a[1]) \div Base
      c2 == (2 * a[2] + c1) \div Base
  IN  <<(2 * a[1]) % Base, (2 * a[2] + c1) % Base, (2 * a[3] + c2) % Base>>

WHalve(a) ==
  <<(a[1] \div 2) + (a[2] % 2) * Half, (a[2] \div 2) + (a[3] % 2) * Half, a[3] \div 2>>

WGeq(a, b) ==
  IF a[3] # b[3] THEN a[3] > b[3]
  ELSE IF a[2] # b[2] THEN a[2] > b[2]
  ELSE a[1] >= b[1]

WAdd(a, b) ==
  LET c1 == (a[1] + b[1]) \div Base
      c2 == (a[2] + b[2] + c1) \div Base
  IN  <<(a[1] + b[1]) % Base, (a[2] + b[2] + c1) % Base, (a[3] + b[3] + c2) % Base>>

\* a - b for a >= b
WSub(a, b) ==
  LET b1 == IF a[1] < b[1] THEN 1 ELSE 0
      b2 == IF a[2] < b[2] + b1 THEN 1 ELSE 0
  IN  <<(a[1] - b[1] + Base) % Base, (a[2] - b[2] - b1 + Base) % Base, a[3] - b[3] - b2>>

\* a * c for an int 0 <= c < 2^27, by doubling
RECURSIVE WMulSmall(_, _)
WMulSmall(a, c) ==
  IF c = 0 THEN WZero
  ELSE LET h == WDouble(WMulSmall(a, c \div 2))
       IN  IF c % 2 = 1 THEN WAdd(h, a) ELSE h

\* floor(a / 2^k)
RECURSIVE WShiftRight(_, _)
WShiftRight(a, k) ==
  IF k = 0 \/ a = WZero THEN a
  ELSE IF k >= 27 THEN WShiftRight(<<a[2], a[3], 0>>, k - 27)
  ELSE WShiftRight(WHalve(a), k - 1)

(***************************************************************************)
(* binary64.  A finite positive double is [m, e] with value m * 2^e and    *)
(* 2^52 <= m < 2^53; zero is [WZero, 0].                                   *)
(***************************************************************************)
MantBits == 53

\* 2^52 = 2^25 * Base, 2^53 = 2^26 * Base, 2^54 = Base * Base
TwoTo52 == <<0, 33554432, 0>>

TwoTo53 == <<0, 67108864, 0>>

TwoTo54 == <<0, 0, 1>>

FZero == [m |-> WZero, e |-> 0]

IsZero(x) == x.m = WZero

\* shift a non-zero significand left until its top bit is bit 52
RECURSIVE Normalize(_, _)
Normalize(m, e) ==
  IF WGeq(m, TwoTo52) THEN [m |-> m, e |-> e]
  ELSE Normalize(WDouble(m), e - 1)

\* float(n) for an int 0 <= n < 2^31: exact
FromInt(n) == IF n = 0 THEN FZero ELSE Normalize(WOfInt(n), 0)

\* round q * 2^e, with q holding 54 bits (the last one the round bit) and
\* sticky telling whether any lower bit is set, to nearest, ties to even
RoundNearestEven(q, sticky, e) ==
  LET m    == WHalve(q)
      up   == q[1] % 2 = 1 /\ (sticky \/ m[1] % 2 = 1)
      m1   == IF up THEN WAdd(m, WOfInt(1)) ELSE m
  IN  IF m1 = TwoTo53 THEN [m |-> TwoTo52, e |-> e + 2]
      ELSE [m |-> m1, e |-> e + 1]

\* shift q right until it holds 54 bits, collecting the sticky bit
RECURSIVE ShiftTo54(_, _, _)
ShiftTo54(q, sticky, e) ==
  IF WGeq(q, TwoTo54)
  THEN ShiftTo54(WHalve(q), sticky \/ q[1] % 2 = 1, e + 1)
  ELSE [q |-> q, sticky |-> sticky, e |-> e]

\* c * x for a Python int 0 <= c < 2^26 and a float x
FMulInt(c, x) ==
  IF c = 0 \/ IsZero(x) THEN FZero
  ELSE LET s == ShiftTo54(WMulSmall(WDouble(x.m), c), FALSE, x.e - 1)
       IN  RoundNearestEven(s.q, s.sticky, s.e)

\* x * 2^k: exact
FScale(x, k) == IF IsZero(x) THEN x ELSE [m |-> x.m, e |-> x.e + k]

\* restoring division: n more quotient bits of r / d, with r < d
RECURSIVE DivBits(_, _, _, _)
DivBits(q, r, d, n) ==
  IF n = 0 THEN [q |-> q, r |-> r]
  ELSE LET r2 == WDouble(r)
           q2 == WDouble(q)
       IN  IF q2[1] % 2 = 0 /\ WGeq(r2, d)
           THEN DivBits(<<q2[1] + 1, q2[2], q2[3]>>, WSub(r2, d), d, n - 1)
           ELSE DivBits(q2, r2, d, n - 1)

\* x / y for floats x, y with y non-zero
FDiv(x, y) ==
  IF IsZero(x) THEN FZero
  ELSE LET ge == WGeq(x.m, y.m)
           qr == IF ge
                 THEN DivBits(WOfInt(1), WSub(x.m, y.m), y.m, MantBits)
                 ELSE DivBits(WZero, x.m, y.m, MantBits + 1)
           e  == IF ge THEN x.e - y.e - MantBits ELSE x.e - y.e - MantBits - 1
       IN  RoundNearestEven(qr.q, qr.r # WZero, e)

\* int(x) for a float 0 <= x < 2^31: truncation
Trunc(x) ==
  IF IsZero(x) \/ x.e <= 0 - MantBits THEN 0
  ELSE WToInt(WShiftRight(x.m, 0 - x.e))

(***************************************************************************)
(* Bounds of the model.                                                    *)
(***************************************************************************)
\* source frames are 0..MaxSrc pixels wide and high (0: a degenerate frame)
MaxSrc == 3

\* grid bounds max_width, max_height range over 1..MaxGrid
MaxGrid == 3

\* a decoded file holds 1..MaxFrames frames
MaxFrames == 3

\* the playback loop is followed for MaxFrameCount frames
MaxFrameCount == 4

Min(a, b) == IF a <= b THEN a ELSE b

Max(a, b) == IF a >= b THEN a ELSE b

\* an optional value: None is the empty tuple, a value v is <<v>>
None == <<>>

Some(v) == <<v>>

(***************************************************************************)
(* image_to_ascii (src/ascii.py:19-57).  An image is [width, height, lum]: *)
(* its size and the luminance every pixel of it has, so that its resized   *)
(* grayscale copy holds lum in every cell.                                 *)
(***************************************************************************)
ascii_chars == <<"@", "%", "#", "*", "+", "=", "-", ":", ".", " ">>

\* the ramp read from lightest to darkest
char_index_inverted(pixel) ==
  Len(ascii_chars) - 1 - Min(Len(ascii_chars) - 1, (pixel * Len(ascii_chars)) \div 256)

\* line 53, zero-based as in the source
char_index(pixel) == Min(Len(ascii_chars) - 1, (pixel * Len(ascii_chars)) \div 256)

\* line 25, for image.height # 0
aspect_ratio(image) == FDiv(FromInt(image.width), FromInt(image.height))

\* line 28
width_by_height(aspect, maxh) == Trunc(FScale(FMulInt(maxh, aspect), 1))

\* line 29, for a non-zero aspect ratio
height_by_width(aspect, maxw) == Trunc(FScale(FDiv(FromInt(maxw), aspect), -1))

\* lines 48-55: one row of glyphs per y, one glyph per x
ascii_art(w, h, lum) ==
  LET glyph == ascii_chars[char_index(lum) + 1]
      line  == [x \in 1..w |-> glyph]
  IN  [y \in 1..h |-> line]

\* the height-bound grid taken without comparing it to max_width
grid_size_unfitted(image, maxw, maxh) ==
  IF image.height = 0 \/ image.width = 0
  THEN [raised |-> "ZeroDivisionError", width |-> 0, height |-> 0]
  ELSE [raised |-> "", width |-> width_by_height(aspect_ratio(image), maxh),
        height |-> maxh]

\* lines 25-38: the grid the frame is resized to, or the exception raised.
\* Line 25 divides by image.height; line 29 divides by the aspect ratio,
\* which is 0.0 for image.width = 0.
grid_size(image, maxw, maxh) ==
  IF image.height = 0 \/ image.width = 0
  THEN [raised |-> "ZeroDivisionError", width |-> 0, height |-> 0]
  ELSE LET aspect == aspect_ratio(image)
           wbh    == width_by_height(aspect, maxh)
       IN  IF wbh <= maxw
           THEN [raised |-> "", width |-> wbh, height |-> maxh]
           ELSE [raised |-> "", width |-> maxw, height |-> height_by_width(aspect, maxw)]

\* The whole function: the exception raised ("" when it returns), the grid
\* size and the text.  Image.resize (line 41) rejects an empty grid with
\* ValueError("height and width must be > 0").
image_to_ascii(image, maxw, maxh) ==
  LET g == grid_size(image, maxw, maxh)
  IN  IF g.raised # "" THEN [raised |-> g.raised, width |-> 0, height |-> 0, text |-> <<>>]
      ELSE IF g.width < 1 \/ g.height < 1
      THEN [raised |-> "ValueError", width |-> g.width, height |-> g.height, text |-> <<>>]
      ELSE [raised |-> "", width |-> g.width, height |-> g.height,
            text |-> ascii_art(g.width, g.height, image.lum)]

(***************************************************************************)
(* State.                                                                  *)
(***************************************************************************)
VARIABLES
  pc,            \* where the program is
  args,          \* the parsed command line
  terminal,      \* what get_terminal_size returns
  max_width,     \* main's max_width
  max_height,    \* main's max_height
  speed,         \* play_ascii_animation's speed, in hundredths
  frames,        \* the decoded frames
  durations,     \* their durations, in milliseconds
  ascii_frames,  \* the precomputed text frames
  width,         \* image_to_ascii's width of the last call
  height,        \* image_to_ascii's height of the last call
  i,             \* index of the current frame, from 1
  frame_count,   \* frames displayed so far
  sleep_time,    \* the current sleep, in units of 10 microseconds
  out,           \* everything written to the terminal, in order
  sleeps,        \* every sleep started in the loop, in order
  raised,        \* the uncaught exception that ended the process, or ""
  exit_status,   \* None while running, <<status>> once exited
  interrupt      \* None, or where the interrupt signal was delivered

vars == <<pc, args, terminal, max_width, max_height, speed, frames, durations,
          ascii_frames, width, height, i, frame_count, sleep_time, out, sleeps,
          raised, exit_status, interrupt>>

(***************************************************************************)
(* image_to_ascii applied to one frame.                                    *)
(***************************************************************************)
\* spec.md section 8 scenario, and frames far wider or taller than the grid
ScenarioSizes == {<<200, 100>>, <<9, 14>>, <<1, 49>>, <<1000, 1>>, <<1, 1000>>}

ScenarioBounds == {<<120, 40>>, <<80, 20>>, <<9, 8>>, <<2, 49>>}

SourceSizes == ((0..MaxSrc) \X (0..MaxSrc)) \cup ScenarioSizes

GridBounds == ((1..MaxGrid) \X (1..MaxGrid)) \cup ScenarioBounds

Samples == 0..255

NoArgs == [gif_file |-> "anim.gif", width |-> None, speed |-> 50]

InitImage ==
  /\ pc = "call"
  /\ \E size \in SourceSizes, bound \in GridBounds, lum \in Samples :
       /\ lum \in {0, 255} \/ (size = <<2, 2>> /\ bound = <<MaxGrid, MaxGrid>>)
       /\ frames = <<[width |-> size[1], height |-> size[2], lum |-> lum]>>
       /\ max_width = bound[1]
       /\ max_height = bound[2]
  /\ args = NoArgs
  /\ terminal = <<80, 24>>
  /\ speed = 50
  /\ durations = <<100>>
  /\ ascii_frames = <<>>
  /\ width = 0
  /\ height = 0
  /\ i = 1
  /\ frame_count = 0
  /\ sleep_time = 0
  /\ out = <<>>
  /\ sleeps = <<>>
  /\ raised = ""
  /\ exit_status = None
  /\ interrupt = None

\* image_to_ascii(frames[1], max_width, max_height) returns or raises (i = 1)
ImageToAscii ==
  /\ pc = "call"
  /\ LET r == image_to_ascii(frames[i], max_width, max_height)
     IN  /\ width' = r.width
         /\ height' = r.height
         /\ \/ /\ r.raised = ""
               /\ ascii_frames' = Append(ascii_frames, r.text)
               /\ pc' = "returned"
               /\ UNCHANGED raised
            \/ /\ r.raised # ""
               /\ raised' = r.raised
               /\ pc' = "raised"
               /\ UNCHANGED ascii_frames
  /\ UNCHANGED <<args, terminal, max_width, max_height, speed, frames, durations,
                 i, frame_count, sleep_time, out, sleeps, exit_status, interrupt>>

NextImage == ImageToAscii

SpecImage == InitImage /\ [][NextImage]_vars

(***************************************************************************)
(* The program: main, extract_gif_frames, play_ascii_animation.            *)
(* Times are exact: durations in milliseconds, speed in hundredths, sleeps *)
(* in units of 10 microseconds (a duration times a speed).                 *)
(***************************************************************************)
\* the 0.03 s floor of line 111
MinSleep == 3000

\* the duration given to a frame without one, line 72, in milliseconds
DefaultDuration == 100

\* the 120-column cap and the margins of lines 145 and 153
WidthCap == 120

WidthMargin == 2

HeightMargin == 4

GifFiles == {"missing.gif", "anim.gif"}

ArgWidths == {None} \cup {Some(w) : w \in {0 - 1, 0, MaxGrid}}

Speeds == {10, 100}

\* (columns, lines): the fallback of line 126 and a small window
TerminalSizes == {<<80, 24>>, <<12, 7>>}

\* what the decoder finds in a file: the frame size and, per frame, the
\* delay of its info block (None when the block has none)
DecodedSizes == {<<2, 2>>, <<MaxSrc + 1, 1>>}

InfoDurations == {None, Some(50), Some(200)}

\* luminance of the k-th frame of the animation
FrameLum(k) == ((k - 1) * 85) % 256

Truthy(v) == v # None /\ v[1] # 0

Message(text) == [op |-> "print", text |-> text]

StoppedMessage == "Animation stopped."

InitMain ==
  /\ pc = "main"
  /\ args \in [gif_file : GifFiles, width : ArgWidths, speed : Speeds]
  /\ terminal \in TerminalSizes
  /\ max_width = 0
  /\ max_height = 0
  /\ speed = 0
  /\ frames = <<>>
  /\ durations = <<>>
  /\ ascii_frames = <<>>
  /\ width = 0
  /\ height = 0
  /\ i = 1
  /\ frame_count = 0
  /\ sleep_time = 0
  /\ out = <<>>
  /\ sleeps = <<>>
  /\ raised = ""
  /\ exit_status = None
  /\ interrupt = None

\* lines 136-138: the file does not exist
MainFileNotFound ==
  /\ pc = "main"
  /\ args.gif_file = "missing.gif"
  /\ out' = Append(out, Message("Error: File not found."))
  /\ exit_status' = Some(1)
  /\ pc' = "exited"
  /\ UNCHANGED <<args, terminal, max_width, max_height, speed, frames, durations,
                 ascii_frames, width, height, i, frame_count, sleep_time, sleeps,
                 raised, interrupt>>

\* lines 144-150: a width that is truthy and not positive
MainWidthRejected ==
  /\ pc = "main"
  /\ args.gif_file # "missing.gif"
  /\ Truthy(args.width)
  /\ args.width[1] <= 0
  /\ max_height' = terminal[2] - HeightMargin
  /\ out' = Append(out, Message("Error: Width must be a positive integer."))
  /\ exit_status' = Some(1)
  /\ pc' = "exited"
  /\ UNCHANGED <<args, terminal, max_width, speed, frames, durations,
                 ascii_frames, width, height, i, frame_count, sleep_time, sleeps,
                 raised, interrupt>>

\* lines 140-157: the bounds are set and announced (the extension warning
\* of line 141 and the announcements of lines 155-156 only print)
MainDimensions ==
  /\ pc = "main"
  /\ args.gif_file # "missing.gif"
  /\ ~(Truthy(args.width) /\ args.width[1] <= 0)
  /\ max_height' = terminal[2] - HeightMargin
  /\ max_width' = IF Truthy(args.width) THEN args.width[1]
                  ELSE Min(terminal[1] - WidthMargin, WidthCap)
  /\ out' = Append(out, Message("Max ASCII dimensions"))
  /\ pc' = "extract"
  /\ UNCHANGED <<args, terminal, speed, frames, durations, ascii_frames, width,
                 height, i, frame_count, sleep_time, sleeps, raised, exit_status,
                 interrupt>>

\* lines 62-75 and 160-164: the decoder returns n frames of one size, and
\* main passes them to play_ascii_animation with args.speed
ExtractGifFrames ==
  /\ pc = "extract"
  /\ \E size \in DecodedSizes, n \in 1..MaxFrames :
       \E info \in [1..n -> InfoDurations] :
         /\ frames' = [k \in 1..n |->
                         [width |-> size[1], height |-> size[2], lum |-> FrameLum(k)]]
         /\ durations' = [k \in 1..n |->
                            IF info[k] = None THEN DefaultDuration ELSE info[k][1]]
  /\ speed' = args.speed
  /\ out' = out \o <<Message("Found frames"), Message("Converting frames to ASCII...")>>
  /\ i' = 1
  /\ pc' = "precompute"
  /\ UNCHANGED <<args, terminal, max_width, max_height, ascii_frames, width, height,
                 frame_count, sleep_time, sleeps, raised, exit_status, interrupt>>

\* lines 76-78: the decoder fails
ExtractFails ==
  /\ pc = "extract"
  /\ out' = Append(out, Message("Error reading GIF"))
  /\ exit_status' = Some(1)
  /\ pc' = "exited"
  /\ UNCHANGED <<args, terminal, max_width, max_height, speed, frames, durations,
                 ascii_frames, width, height, i, frame_count, sleep_time, sleeps,
                 raised, interrupt>>

\* lines 89-95: frame i is converted; after the last one the start message
\* is printed and the one-second pause begins.  An exception of line 90 is
\* caught neither here nor in main.
Convert ==
  /\ pc = "precompute"
  /\ LET r == image_to_ascii(frames[i], max_width, max_height)
         progress == [op |-> "progress", done |-> i, total |-> Len(frames)]
     IN  /\ width' = r.width
         /\ height' = r.height
         /\ \/ /\ r.raised = ""
               /\ ascii_frames' = Append(ascii_frames, r.text)
               /\ IF i < Len(frames)
                  THEN /\ out' = Append(out, progress)
                       /\ i' = i + 1
                       /\ pc' = "precompute"
                  ELSE /\ out' = out \o <<progress,
                            Message("Starting animation... (Press Ctrl+C to stop)")>>
                       /\ i' = 1
                       /\ pc' = "pause"
               /\ UNCHANGED <<raised, exit_status>>
            \/ /\ r.raised # ""
               /\ raised' = r.raised
               /\ exit_status' = Some(1)
               /\ pc' = "exited"
               /\ UNCHANGED <<ascii_frames, out, i>>
  /\ UNCHANGED <<args, terminal, max_width, max_height, speed, frames, durations,
                 frame_count, sleep_time, sleeps, interrupt>>

\* line 95 returns, lines 97-100: the loop is entered
PauseDone ==
  /\ pc = "pause"
  /\ frame_count' = 0
  /\ i' = 1
  /\ pc' = "redraw"
  /\ UNCHANGED <<args, terminal, max_width, max_height, speed, frames, durations,
                 ascii_frames, width, height, sleep_time, out, sleeps, raised,
                 exit_status, interrupt>>

\* the control written before a frame whose number is frame_count = 0 on the
\* first pass only, taken from the loop index instead
redraw_by_index(count, index) == IF index = 1 THEN "clear" ELSE "home"

\* lines 102-106
redraw(count, index) == IF count = 0 THEN "clear" ELSE "home"

Redraw ==
  /\ pc = "redraw"
  /\ frame_count < MaxFrameCount
  /\ out' = Append(out, [op |-> redraw(frame_count, i)])
  /\ pc' = "print"
  /\ UNCHANGED <<args, terminal, max_width, max_height, speed, frames, durations,
                 ascii_frames, width, height, i, frame_count, sleep_time, sleeps,
                 raised, exit_status, interrupt>>

\* a sleep without the floor
sleep_for_unfloored(duration, spd) == duration * spd

\* line 111
sleep_for(duration, spd) == Max(MinSleep, duration * spd)

\* lines 108-112: the frame is written and the sleep begins
PrintFrame ==
  /\ pc = "print"
  /\ out' = Append(out, [op |-> "frame", rows |-> ascii_frames[i]])
  /\ sleep_time' = sleep_for(durations[i], speed)
  /\ sleeps' = Append(sleeps, sleep_for(durations[i], speed))
  /\ pc' = "sleep"
  /\ UNCHANGED <<args, terminal, max_width, max_height, speed, frames, durations,
                 ascii_frames, width, height, i, frame_count, raised, exit_status,
                 interrupt>>

\* line 112 returns, line 114, and the next pair of the zip (line 100),
\* which after the last pair is the first one again (line 99)
WakeUp ==
  /\ pc = "sleep"
  /\ frame_count' = frame_count + 1
  /\ i' = IF i < Min(Len(ascii_frames), Len(durations)) THEN i + 1 ELSE 1
  /\ pc' = "redraw"
  /\ UNCHANGED <<args, terminal, max_width, max_height, speed, frames, durations,
                 ascii_frames, width, height, sleep_time, out, sleeps, raised,
                 exit_status, interrupt>>

FramesWritten == Cardinality({k \in 1..Len(out) : out[k].op = "frame"})

Delivery == [pc |-> pc, frame_count |-> frame_count, written |-> FramesWritten]

\* every place of the running program
Running == {"main", "extract", "precompute", "pause", "redraw", "print", "sleep"}

\* a try block that ends before the sleep of line 112
TryBlockBeforeSleep == {"redraw", "print"}

\* the places of play_ascii_animation inside its try block, lines 97-114
TryBlock == {"redraw", "print", "sleep"}

\* lines 116-118: SIGINT raises KeyboardInterrupt inside the try block; a
\* frame being written or a sleep being slept is abandoned
KeyboardInterruptCaught ==
  /\ pc \in TryBlock
  /\ interrupt' = Some(Delivery)
  /\ out' = Append(out, Message(StoppedMessage))
  /\ exit_status' = Some(0)
  /\ pc' = "exited"
  /\ UNCHANGED <<args, terminal, max_width, max_height, speed, frames, durations,
                 ascii_frames, width, height, i, frame_count, sleep_time, sleeps,
                 raised>>

\* the status of a process ended by an uncaught KeyboardInterrupt: 1, or
\* death by SIGINT (128 + 2) where the interpreter re-raises the signal
UncaughtInterruptStatus == {1, 130}

\* SIGINT outside the try block: lines 86-95 and main have no handler
KeyboardInterruptUncaught ==
  /\ pc \in Running \ TryBlock
  /\ interrupt' = Some(Delivery)
  /\ raised' = "KeyboardInterrupt"
  /\ \E st \in UncaughtInterruptStatus : exit_status' = Some(st)
  /\ pc' = "exited"
  /\ UNCHANGED <<args, terminal, max_width, max_height, speed, frames, durations,
                 ascii_frames, width, height, i, frame_count, sleep_time, out, sleeps>>

Next ==
  \/ MainFileNotFound
  \/ MainWidthRejected
  \/ MainDimensions
  \/ ExtractGifFrames
  \/ ExtractFails
  \/ Convert
  \/ PauseDone
  \/ Redraw
  \/ PrintFrame
  \/ WakeUp
  \/ KeyboardInterruptCaught
  \/ KeyboardInterruptUncaught

Spec == InitMain /\ [][Next]_vars

(***************************************************************************)
(* Properties of image_to_ascii, checked under SpecImage.                  *)
(***************************************************************************)
\* the call has computed a grid for a frame of positive size
GridComputed ==
  /\ pc \in {"returned", "raised"}
  /\ frames[1].width >= 1
  /\ frames[1].height >= 1

\* C1: for positive source and bound sizes the negotiated grid never exceeds
\* the bounds, width <= max_width and height <= max_height, on both branches.
C1_GridWithinBounds ==
  GridComputed => width <= max_width /\ height <= max_height

\* the width-bound branch has produced a grid lower than max_height
C1_Witness ==
  /\ pc = "returned"
  /\ width = max_width
  /\ height >= 1
  /\ height < max_height

\* C2: for positive source and bound sizes the negotiated grid has
\* width >= 1 and height >= 1.
C2_GridAtLeastOne ==
  GridComputed => width >= 1 /\ height >= 1

\* C4: rasterizing a frame of width 0 or height 0 fails with InvalidGeometry,
\* never with a division by zero, and produces no text frame.
C4_InvalidGeometry ==
  (pc \in {"returned", "raised"} /\ (frames[1].width = 0 \/ frames[1].height = 0))
    => raised = "InvalidGeometry" /\ ascii_frames = <<>>

\* position of a glyph in the ramp, from 0
GlyphPos(c) == CHOOSE k \in 0..9 : ascii_chars[k + 1] = c

\* C9: every cell of the text frame holds the ramp glyph at
\* min(9, floor(sample * 10 / 256)), a position in 0..9 that no lower sample
\* exceeds; a black frame is all "@" and a white frame all " ".
C9_Quantizer ==
  pc = "returned" =>
    LET lum  == frames[1].lum
        text == ascii_frames[1]
        k    == Min(9, (lum * 10) \div 256)
    IN  /\ Len(text) = height
        /\ \A y \in 1..Len(text) :
             /\ Len(text[y]) = width
             /\ \A x \in 1..Len(text[y]) :
                  /\ text[y][x] \in {ascii_chars[n] : n \in 1..10}
                  /\ GlyphPos(text[y][x]) = k
                  /\ lum = 0 => text[y][x] = "@"
                  /\ lum = 255 => text[y][x] = " "
        /\ \A s \in Samples :
             /\ s <= lum => Min(9, (s * 10) \div 256) <= GlyphPos(text[1][1])
             /\ s >= lum => Min(9, (s * 10) \div 256) >= GlyphPos(text[1][1])

\* a white square frame has been rasterized to a grid of blanks
C9_Witness ==
  /\ pc = "returned"
  /\ frames[1].lum = 255
  /\ frames[1].width = frames[1].height
  /\ width >= 2
  /\ ascii_frames[1][height][width] = " "

\* C10: for positive inputs the grid is (floor(maxHeight * sourceWidth /
\* sourceHeight * 2), maxHeight) when that width is <= maxWidth and
\* (maxWidth, floor(maxWidth * sourceHeight / sourceWidth * 0.5)) otherwise.
C10_GridFormula ==
  GridComputed =>
    LET sw  == frames[1].width
        sh  == frames[1].height
        hlw == (max_height * sw * 2) \div sh
        wlh == (max_width * sh) \div (2 * sw)
    IN  IF hlw <= max_width
        THEN width = hlw /\ height = max_height
        ELSE width = max_width /\ height = wlh

(***************************************************************************)
(* Properties of the program, checked under Spec.                          *)
(***************************************************************************)
\* C3: a width given on the command line that is zero or negative makes main
\* report an error and exit with status 1 before anything is decoded; it is
\* never replaced by the terminal's width.
C3_NonPositiveWidthRejected ==
  (/\ args.width # None
   /\ args.width[1] <= 0
   /\ args.gif_file # "missing.gif"
   /\ pc # "main"
   /\ interrupt = None)
    => /\ pc = "exited"
       /\ exit_status = Some(1)
       /\ max_width = 0
       /\ frames = <<>>

StoppedMessages ==
  Cardinality({k \in 1..Len(out) : out[k].op = "print" /\ out[k].text = StoppedMessage})

\* C5: an interrupt in the playback loop, before a frame, while it is written
\* or during the sleep after it, at any frame index, prints the stopped
\* message exactly once and exits with status 0; the sleep does not run to
\* its end and no frame is written afterwards.
C5_InterruptStopsPlayback ==
  (interrupt # None /\ interrupt[1].pc \in {"redraw", "print", "sleep"})
    => /\ pc = "exited"
       /\ exit_status = Some(0)
       /\ raised = ""
       /\ StoppedMessages = 1
       /\ out[Len(out)].op = "print"
       /\ out[Len(out)].text = StoppedMessage
       /\ FramesWritten = interrupt[1].written
       /\ frame_count = interrupt[1].frame_count

\* the sleep after a frame other than the first one was interrupted
C5_Witness ==
  /\ interrupt # None
  /\ interrupt[1].pc = "sleep"
  /\ interrupt[1].frame_count >= 1
  /\ exit_status = Some(0)
  /\ StoppedMessages = 1

\* C6: once play_ascii_animation has been called the process ends only as
\* Cancelled: with the stopped message and status 0, after an interrupt,
\* whatever the phase the interrupt came in.
C6_CancelledOnlyTerminal ==
  (pc = "exited" /\ frames # <<>>)
    => /\ interrupt # None
       /\ exit_status = Some(0)
       /\ StoppedMessages = 1

\* the k-th event of out is a frame, and so many frames precede it
FramesBefore(k) == Cardinality({q \in 1..(k - 1) : out[q].op = "frame"})

\* C7: without an interrupt the loop does not stop; the k-th frame written
\* (k = 0, 1, ...) is precomputed frame k mod total; a clear precedes the
\* write exactly when k = 0 and a cursor-home precedes every other write,
\* the one after the wrap included.
C7_FrameOrderAndRedraw ==
  /\ \A k \in 1..Len(out) :
       out[k].op = "frame" =>
         /\ out[k].rows = ascii_frames[(FramesBefore(k) % Len(ascii_frames)) + 1]
         /\ k > 1
         /\ out[k - 1].op = (IF FramesBefore(k) = 0 THEN "clear" ELSE "home")
  /\ (interrupt = None /\ pc \in {"redraw", "print", "sleep"})
       => /\ exit_status = None
          /\ frame_count = MaxFrameCount \/ ENABLED (Redraw \/ PrintFrame \/ WakeUp)
  /\ (pc = "exited" /\ FramesWritten > 0) => interrupt # None

\* the first frame has been written again after the last one
C7_Witness ==
  /\ interrupt = None
  /\ Len(ascii_frames) >= 2
  /\ FramesWritten = Len(ascii_frames) + 1
  /\ out[Len(out)].op = "frame"
  /\ out[Len(out)].rows = ascii_frames[1]
  /\ out[Len(out) - 1].op = "home"

\* C8: the sleep after frame i is max(0.03 s, durations[i] * speed), never
\* below 0.03 s; durations [0.1, 0.05, 0.2] give [0.1, 0.05, 0.2] at speed
\* 1.0, and at speed 0.1 the first two sleeps are 0.03 s.
C8_SleepFloor ==
  /\ \A k \in 1..Len(sleeps) :
       LET d == durations[((k - 1) % Len(durations)) + 1]
       IN  /\ sleeps[k] >= MinSleep
           /\ d * speed >= MinSleep => sleeps[k] = d * speed
           /\ d * speed < MinSleep => sleeps[k] = MinSleep
  /\ pc = "sleep" => sleep_time = sleeps[Len(sleeps)]
  /\ Len(sleeps) = FramesWritten
  /\ (durations = <<100, 50, 200>> /\ speed = 100 /\ Len(sleeps) >= 3)
       => SubSeq(sleeps, 1, 3) = <<10000, 5000, 20000>>
  /\ (durations = <<100, 50, 200>> /\ speed = 10 /\ Len(sleeps) >= 2)
       => SubSeq(sleeps, 1, 2) = <<3000, 3000>>

\* the three frames of the example have been slept after at speed 0.1
C8_Witness ==
  /\ durations = <<100, 50, 200>>
  /\ speed = 10
  /\ Len(sleeps) >= 3
  /\ sleeps[3] = 3000

=============================================================================
